---- MODULE Spec2Model ----
(***************************************************************************)
(* A model of the operational utility classes of projeto-orquestrador:     *)
(* the in-memory TTL cache (MemoryCache), the rate limiter (RateLimiter),  *)
(* the /api/metrics and /api/health-check route handlers and the security  *)
(* middleware.  Each subsystem has its own specification over the shared   *)
(* variables; the variables of the other subsystems stay at their initial  *)
(* values.                                                                 *)
(*                                                                         *)
(* Time is Date.now() in milliseconds.  An operation reads the clock once  *)
(* and runs to completion (JavaScript's run-to-completion semantics); the  *)
(* clock moves between operations, so several operations may fall into    *)
(* the same millisecond.                                                   *)
(***************************************************************************)
EXTENDS Integers, Sequences, FiniteSets, TLC

VARIABLES
  now,        \* Date.now(), in ms
  strategy,   \* MemoryCache.config.strategy
  cache,      \* MemoryCache.cache: the Map's entries in insertion order
  cacheOp,    \* the last cache operation and what it returned
  ghost,      \* history of each key, kept for the properties only
  rlStore,    \* RateLimiter.store: clientId -> [count, resetTime]
  rlOp,       \* the last RateLimiter.check and what it returned
  rlLog,      \* the allowed requests of each client, by time (properties only)
  rlUsed,     \* requests checked so far
  rlWin,      \* each client's current window: when it opened, the calls in it
              \* (properties only)
  publicMetrics, \* ENABLE_PUBLIC_METRICS
  mStores,    \* the store of the limiter of each method of /api/metrics
  metrics,    \* PerformanceCollector.metrics: name -> samples
  mResp,      \* the last request to /api/metrics and its response
  mUsed,      \* requests to /api/metrics so far, by method
  mwStores,   \* the stores of apiRateLimiter, uploadRateLimiter, authRateLimiter
  mwResp,     \* the last request to the middleware and what became of it
  mwUsed,     \* requests checked by each of these limiters so far
  hcEnv,      \* process.env: HEALTH_CHECK_TOKEN and NODE_ENV
  errorMetrics, \* ErrorMonitor's totalErrors and errorRate
  hcResp,     \* the last request to /api/health-check and its answer
  currentStep, \* Home: the wizard's current step
  useAdaptiveInterface, \* Home: the checkbox
  pageData,   \* Home: uploadedData, analysisResult, transformedData
  child,      \* the local state of the step's component while it is mounted
  isPublishing,  \* OutputPublisher
  publishResult, \* OutputPublisher
  pubForm,    \* OutputPublisher: selectedTarget and connectionString
  pubRun,     \* the run of handlePublish: where it is and what it closed over
  completions, \* the steps whose onComplete was called (properties only)
  ccConfig,   \* CacheCompressionMiddleware.config: enableCache, enableCompression
  ccCache,    \* the keys with a cached response in the 'api' cache
  ccResp,     \* the last request through wrap() and what became of it
  cpfValue,   \* the text given to the CPF validators
  cpfResult,  \* what DataValidator and DataTypeInference said of it
  alerts,     \* PerformanceCollector.alerts, in the order of the Map
  alertThresholds, \* PerformanceCollector.config.alertThresholds
  removed,    \* what cleanupOldMetrics took away, when it was the last step
              \* of the collector (properties only)
  getOrSetCalls, \* the calls of MemoryCache.getOrSet: where each is, its key and
              \* what it returned
  patterns,   \* LearningSystem.patterns, in the order of the Map
  storage,    \* localStorage: the item stored under storageKey
  learnOp,    \* the last operation of the LearningSystem
  learned     \* calls of learnPattern so far

cacheVars == <<strategy, cache, cacheOp, ghost>>
rlVars == <<rlStore, rlOp, rlLog, rlUsed, rlWin>>
mVars == <<publicMetrics, mStores, metrics, mResp, mUsed>>
mwVars == <<mwStores, mwResp, mwUsed>>
hcVars == <<hcEnv, errorMetrics, hcResp>>
wizVars == <<currentStep, useAdaptiveInterface, pageData, child, isPublishing,
             publishResult, pubForm, pubRun, completions>>
ccVars == <<ccConfig, ccCache, ccResp>>
cpfVars == <<cpfValue, cpfResult>>
pcVars == <<alerts, alertThresholds, removed>>
lsVars == <<patterns, storage, learnOp, learned>>
restVars == <<wizVars, ccVars, cpfVars, pcVars, getOrSetCalls, lsVars>>
vars == <<now, cacheVars, rlVars, mVars, mwVars, hcVars, restVars>>

\* What the operations of one subsystem leave alone
notCache == <<rlVars, mVars, mwVars, hcVars, restVars>>
notRl == <<cacheVars, mVars, mwVars, hcVars, restVars>>
notMetrics == <<rlVars, mwVars, hcVars, restVars>>
notMiddleware == <<cacheVars, rlVars, mVars, hcVars, restVars>>
notHealth == <<cacheVars, rlVars, mVars, mwVars, restVars>>
notWizard == <<now, cacheVars, rlVars, mVars, mwVars, hcVars, ccVars, cpfVars,
               pcVars, getOrSetCalls, lsVars>>
notCc == <<now, cacheVars, rlVars, mVars, mwVars, hcVars, wizVars, cpfVars,
           pcVars, getOrSetCalls, lsVars>>
notCpf == <<now, cacheVars, rlVars, mVars, mwVars, hcVars, wizVars, ccVars,
            pcVars, getOrSetCalls, lsVars>>
notPc == <<cacheVars, rlVars, publicMetrics, mStores, mResp, mUsed, mwVars,
           hcVars, wizVars, ccVars, cpfVars, getOrSetCalls, lsVars>>
notGetOrSet == <<now, strategy, cacheOp, ghost, rlVars, mVars, mwVars, hcVars,
                 wizVars, ccVars, cpfVars, pcVars, lsVars>>
notLearning == <<cacheVars, rlVars, mVars, mwVars, hcVars, wizVars, ccVars,
                 cpfVars, pcVars, getOrSetCalls>>

----------------------------------------------------------------------------
(* Bounds of the model *)

MaxSize == 2      \* config.maxSize
DefaultTtl == 1   \* config.ttl, in seconds
MaxTicks == 3     \* the clock stops after MaxTicks seconds
EvictTicks == 1   \* the same, where only the default ttl is used
MaxAccess == 1    \* successful gets per entry
RlMaxRequests == 2  \* RateLimiter.maxRequests
RlWindowSec == 2    \* RateLimiter.windowMs, in seconds
RlTicks == 3        \* the clock of the rate limiter stops here
RlBudget == 5       \* requests checked in one run
MethodBudget == 2   \* GET and POST requests to /api/metrics in one run
MwBudget == 2       \* requests checked by apiRateLimiter or uploadRateLimiter
MaxErrors == 6      \* errors recorded by the ErrorMonitor in one run
HcMinutes == 2      \* minutes of uptime in the runs of the health check
RetentionMs == 1    \* PerformanceCollector.config.retentionPeriod, in ms
PcTicks == 2        \* milliseconds of the runs of the PerformanceCollector
PcSamples == 1      \* samples of one metric the collector holds in those runs
MaxCalls == 2       \* calls of getOrSet in one run
MaxPatterns == 2    \* LearningSystem.config.maxPatterns
MaxLearns == 3      \* calls of learnPattern in one run
LearnTicks == 2     \* milliseconds of the runs of the LearningSystem

(* Program constants *)

MsPerSec == 1000
DefaultRetryAfter == 60     \* the Retry-After of a 429 without retryAfter
CpuUsageThreshold == 80     \* alertThresholds['cpu.usage']
ErrorRateThreshold == 5     \* alertThresholds['error.rate']
NewConfidence == 7          \* confidence of a new pattern (0.7), in tenths
ConfidenceStep == 1         \* confidence + 0.1, in tenths
FullConfidence == 10        \* 1.0, in tenths
ConfidenceWeight == 4       \* 0.4, in tenths
RecencyWeight == 2          \* 0.2, in tenths
MetricsGetMax == 60         \* metricsGetLimiter
MetricsPostMax == 10        \* metricsPostLimiter
MetricsDeleteMax == 5       \* metricsDeleteLimiter
MetricsWindowMs == 60000
MetricsDeleteWindowMs == 300000
ApiMax == 100               \* RATE_LIMIT_MAX
ApiWindowMs == 900000       \* RATE_LIMIT_WINDOW_MS
UploadMax == 10
UploadWindowMs == 60000
AuthMax == 5
AuthWindowMs == 900000
MaxRequestSize == 50000000  \* MAX_REQUEST_SIZE
MsPerMinute == 60000
DegradedErrorRate == 5      \* errors per minute above which health is degraded

Keys == 1..(MaxSize + 1)
Values == {"v"}
NoTtl == -1       \* the ttl argument left out (undefined)
TtlArgs == {NoTtl, 0, DefaultTtl + 1}
NULL == "null"

Min(a, b) == IF a < b THEN a ELSE b
Max(a, b) == IF a > b THEN a ELSE b

----------------------------------------------------------------------------
(* Date.now() moving on by one second between two operations; cacheOp is
   the operation that ran last at the present time, so it is forgotten *)
Tick(limit) ==
  /\ now + MsPerSec <= limit * MsPerSec
  /\ now' = now + MsPerSec
  /\ cacheOp' = [op |-> "none", key |-> 0, result |-> "null", full |-> FALSE,
                 removed |-> {}, allowed |-> {}]
  /\ UNCHANGED <<strategy, cache, ghost>>
  /\ UNCHANGED notCache

----------------------------------------------------------------------------
(* MemoryCache *)

CacheKeys(c) == {c[i].key : i \in 1..Len(c)}

\* Map.has
MapHas(c, k) == k \in CacheKeys(c)

\* Map.get: the entry stored under k (k is present)
MapGet(c, k) == c[CHOOSE i \in 1..Len(c) : c[i].key = k]

\* Map.delete: the other entries keep their order
MapDelete(c, k) == SelectSeq(c, LAMBDA e : e.key # k)

\* Map.set: an existing key keeps its place, a new key goes last
MapSet(c, e) ==
  IF MapHas(c, e.key)
    THEN [i \in 1..Len(c) |-> IF c[i].key = e.key THEN e ELSE c[i]]
    ELSE Append(c, e)

\* entry expired: now - entry.timestamp > entry.ttl
Expired(e, t) == t - e.timestamp > e.ttl

\* const entryTtl = ttl || this.config.ttl  (undefined and 0 are falsy)
EntryTtl(ttl) == IF ttl = NoTtl \/ ttl = 0 THEN DefaultTtl ELSE ttl

\* The loop of findLRU / findFIFO: the first entry whose time is strictly
\* below every earlier one, starting from oldestTime = Date.now(); '' (no
\* key, here 0) when no entry is older than now.
RECURSIVE FindOldest(_, _, _, _, _)
FindOldest(c, i, oldestKey, oldestTime, field) ==
  IF i > Len(c) THEN oldestKey
  ELSE LET t == IF field = "lastAccessed" THEN c[i].lastAccessed
                                           ELSE c[i].timestamp
       IN IF t < oldestTime
            THEN FindOldest(c, i + 1, c[i].key, t, field)
            ELSE FindOldest(c, i + 1, oldestKey, oldestTime, field)

findLRU(c, t) == FindOldest(c, 1, 0, t, "lastAccessed")

findFIFO(c, t) == FindOldest(c, 1, 0, t, "timestamp")

\* The loop of findLFU, starting from leastCount = Infinity
RECURSIVE FindLeastUsed(_, _, _, _, _)
FindLeastUsed(c, i, leastKey, leastCount, none) ==
  IF i > Len(c) THEN leastKey
  ELSE IF none \/ c[i].accessCount < leastCount
         THEN FindLeastUsed(c, i + 1, c[i].key, c[i].accessCount, FALSE)
         ELSE FindLeastUsed(c, i + 1, leastKey, leastCount, none)

\* findLFU with the comparison turned round: the most used entry
RECURSIVE FindMostUsed(_, _, _, _, _)
FindMostUsed(c, i, mostKey, mostCount, none) ==
  IF i > Len(c) THEN mostKey
  ELSE IF none \/ c[i].accessCount > mostCount
         THEN FindMostUsed(c, i + 1, c[i].key, c[i].accessCount, FALSE)
         ELSE FindMostUsed(c, i + 1, mostKey, mostCount, none)

findLFU_mostUsed(c) == FindMostUsed(c, 1, 0, 0, TRUE)

findLFU(c) == FindLeastUsed(c, 1, 0, 0, TRUE)

\* evict(): the key to delete (0 deletes nothing) and whether evictions++
EvictKey(c, s, t) ==
  CASE s = "lru" -> findLRU(c, t)
    [] s = "lfu" -> findLFU(c)
    [] OTHER -> findFIFO(c, t)

Evict(c, s, t) == IF Len(c) = 0 THEN c ELSE MapDelete(c, EvictKey(c, s, t))

\* What the properties remember of a key: the last set (time and ttl
\* argument), the last use (set or successful get) and the successful gets
\* since that set.
NoHistory == [setAt |-> -1, ttlArg |-> NoTtl, lastUse |-> -1, gets |-> 0]

\* The history of the keys that c still holds
Remember(g, c) == [k \in Keys |-> IF k \in CacheKeys(c) THEN g[k] ELSE NoHistory]

\* The keys the named policy allows to be evicted from c
OldestUse(c) ==
  {k \in CacheKeys(c) : \A j \in CacheKeys(c) : ghost[k].lastUse <= ghost[j].lastUse}

FewestGets(c) ==
  {k \in CacheKeys(c) : \A j \in CacheKeys(c) : ghost[k].gets <= ghost[j].gets}

FirstInserted(c) ==
  {k \in CacheKeys(c) : \A j \in CacheKeys(c) : ghost[k].setAt <= ghost[j].setAt}

\* What an operation other than set reports
Op(op, key, result) ==
  [op |-> op, key |-> key, result |-> result, full |-> FALSE, removed |-> {},
   allowed |-> {}]

\* The keys the claimed policy of strategy s allows set to evict from c
Evictable(c, s) ==
  CASE s = "lru" -> OldestUse(c)
    [] s = "lfu" -> FewestGets(c)
    [] OTHER -> FirstInserted(c)

Set(key, value, ttl) ==
  LET full == Len(cache) >= MaxSize /\ ~MapHas(cache, key)
      c1 == IF full THEN Evict(cache, strategy, now) ELSE cache
      entry == [key |-> key, value |-> value, timestamp |-> now,
                ttl |-> EntryTtl(ttl) * MsPerSec, accessCount |-> 0,
                lastAccessed |-> now]
      c2 == MapSet(c1, entry)
  IN /\ cache' = c2
     /\ cacheOp' = [op |-> "set", key |-> 0, result |-> NULL,
                    full |-> full /\ Len(cache) = MaxSize,
                    removed |-> CacheKeys(cache) \ CacheKeys(c2),
                    allowed |-> IF full THEN Evictable(cache, strategy) ELSE {}]
     /\ ghost' = Remember([ghost EXCEPT ![key] =
                    [setAt |-> now, ttlArg |-> ttl, lastUse |-> now, gets |-> 0]],
                    c2)
     /\ UNCHANGED <<now, strategy>>
     /\ UNCHANGED notCache

Get(key) ==
  /\ UNCHANGED notCache
  /\ IF ~MapHas(cache, key) THEN
         /\ cacheOp' = Op("get", key, NULL)
         /\ UNCHANGED <<now, strategy, cache, ghost>>
       ELSE IF Expired(MapGet(cache, key), now) THEN
         /\ cache' = MapDelete(cache, key)
         /\ cacheOp' = Op("get", key, NULL)
         /\ ghost' = Remember(ghost, cache')
         /\ UNCHANGED <<now, strategy>>
       ELSE
         LET e == MapGet(cache, key) IN
         /\ e.accessCount < MaxAccess
         /\ cache' = MapSet(cache, [e EXCEPT !.accessCount = @ + 1,
                                             !.lastAccessed = now])
         /\ cacheOp' = Op("get", key, e.value)
         /\ ghost' = [ghost EXCEPT ![key].lastUse = now, ![key].gets = @ + 1]
         /\ UNCHANGED <<now, strategy>>

Has(key) ==
  /\ UNCHANGED notCache
  /\ IF ~MapHas(cache, key) THEN
         /\ cacheOp' = Op("has", key, "false")
         /\ UNCHANGED <<now, strategy, cache, ghost>>
       ELSE IF Expired(MapGet(cache, key), now) THEN
         /\ cache' = MapDelete(cache, key)
         /\ cacheOp' = Op("has", key, "false")
         /\ ghost' = Remember(ghost, cache')
         /\ UNCHANGED <<now, strategy>>
       ELSE
         /\ cacheOp' = Op("has", key, "true")
         /\ UNCHANGED <<now, strategy, cache, ghost>>

Delete(key) ==
  /\ cache' = MapDelete(cache, key)
  /\ cacheOp' = Op("delete", 0, NULL)
  /\ ghost' = Remember(ghost, cache')
  /\ UNCHANGED <<now, strategy>>
  /\ UNCHANGED notCache

Clear ==
  /\ cache' = <<>>
  /\ cacheOp' = Op("clear", 0, NULL)
  /\ ghost' = Remember(ghost, cache')
  /\ UNCHANGED <<now, strategy>>
  /\ UNCHANGED notCache

\* cleanup(), run by setInterval: drops the expired entries
Cleanup ==
  /\ cache' = SelectSeq(cache, LAMBDA e : ~Expired(e, now))
  /\ cacheOp' = Op("cleanup", 0, NULL)
  /\ ghost' = Remember(ghost, cache')
  /\ UNCHANGED <<now, strategy>>
  /\ UNCHANGED notCache

CacheInit(s) ==
  /\ strategy = s
  /\ cache = <<>>
  /\ cacheOp = Op("none", 0, NULL)
  /\ ghost = [k \in Keys |-> NoHistory]

CacheNext(keys, ttls, limit) ==
  \/ Tick(limit)
  \/ \E k \in keys, v \in Values, ttl \in ttls : Set(k, v, ttl)
  \/ \E k \in keys : Get(k)
  \/ \E k \in keys : Has(k)
  \/ \E k \in keys : Delete(k)
  \/ Clear
  \/ Cleanup

----------------------------------------------------------------------------
(* RateLimiter *)

\* A request, as far as the limiter reads it: the x-forwarded-for header
\* split at ',' (<<>> when absent), the x-real-ip header and request.ip
\* ("" when absent) and the user-agent header, as its first 50 characters
\* and the rest.
NoUA == [head |-> "", tail |-> ""]
RlRequests ==
  [xff : {<<>>, <<"b", "a">>}, realIp : {"", "a"}, ip : {"a"},
   ua : {NoUA, [head |-> "A", tail |-> ""], [head |-> "A", tail |-> "x"]}]

\* forwardedFor?.split(',')[0] || realIp || request.ip || 'unknown'
ClientIp(req) ==
  IF req.xff # <<>> /\ req.xff[1] # "" THEN req.xff[1]
  ELSE IF req.realIp # "" THEN req.realIp
  ELSE IF req.ip # "" THEN req.ip
  ELSE "unknown"

\* `${ip}:${userAgent.slice(0, 50)}`
getClientId(req) ==
  <<ClientIp(req), IF req.ua.head = "" THEN "unknown" ELSE req.ua.head>>

ClientIds == {getClientId(r) : r \in RlRequests}
Times == {t * MsPerSec : t \in 0..RlTicks}

\* Math.ceil(a / b) for a >= 0, b > 0
Ceil(a, b) == (a + b - 1) \div b

\* check() that refuses the request that reaches maxRequests
Check_refusesLast(store, id, t, max, window) ==
  LET s1 == IF id \notin DOMAIN store \/ store[id].resetTime < t
              THEN (id :> [count |-> 0, resetTime |-> t + window]) @@ store
              ELSE store
      count == s1[id].count + 1
      allowed == count < max
  IN [store |-> [s1 EXCEPT ![id].count = count],
      allowed |-> allowed,
      remaining |-> Max(0, max - count),
      resetTime |-> s1[id].resetTime,
      retryAfter |-> IF allowed THEN -1 ELSE Ceil(s1[id].resetTime - t, MsPerSec)]

\* check() with the comparison of resetTime and now turned round
Check_resetTimeAhead(store, id, t, max, window) ==
  LET s1 == IF id \notin DOMAIN store \/ store[id].resetTime > t
              THEN (id :> [count |-> 0, resetTime |-> t + window]) @@ store
              ELSE store
      count == s1[id].count + 1
      allowed == count <= max
  IN [store |-> [s1 EXCEPT ![id].count = count],
      allowed |-> allowed,
      remaining |-> Max(0, max - count),
      resetTime |-> s1[id].resetTime,
      retryAfter |-> IF allowed THEN -1 ELSE Ceil(s1[id].resetTime - t, MsPerSec)]

\* check(): the store after it and the result; retryAfter -1 is undefined
Check(store, id, t, max, window) ==
  LET s1 == IF id \notin DOMAIN store \/ store[id].resetTime < t
              THEN (id :> [count |-> 0, resetTime |-> t + window]) @@ store
              ELSE store
      count == s1[id].count + 1
      allowed == count <= max
  IN [store |-> [s1 EXCEPT ![id].count = count],
      allowed |-> allowed,
      remaining |-> Max(0, max - count),
      resetTime |-> s1[id].resetTime,
      retryAfter |-> IF allowed THEN -1 ELSE Ceil(s1[id].resetTime - t, MsPerSec)]

\* cleanup(): delete the entries whose window is over
CleanupStore(store, t) ==
  [id \in {i \in DOMAIN store : ~(store[i].resetTime < t)} |-> store[id]]

RlWindowMs == RlWindowSec * MsPerSec

\* The log without what no interval of length windowMs shares with now
Recent(log, t) ==
  [id \in ClientIds |-> [s \in Times |->
     IF s + RlWindowMs > t THEN log[id][s] ELSE 0]]

\* A client's window after a call at time t: the call opens a window when
\* the client has none or when the resetTime of its window has passed
NoWindow == [opened |-> -1, calls |-> 0]
Called(win, t) ==
  IF win.opened = -1 \/ win.opened + RlWindowMs < t
    THEN [opened |-> t, calls |-> 1]
    ELSE [win EXCEPT !.calls = @ + 1]

RlCheck(req) ==
  LET id == getClientId(req)
      r == Check(rlStore, id, now, RlMaxRequests, RlWindowMs)
  IN /\ rlUsed < RlBudget
     /\ rlUsed' = rlUsed + 1
     /\ rlStore' = r.store
     /\ rlOp' = [id |-> id, allowed |-> r.allowed, remaining |-> r.remaining,
                 resetTime |-> r.resetTime, retryAfter |-> r.retryAfter]
     /\ rlLog' = Recent(IF r.allowed
                          THEN [rlLog EXCEPT ![id][now] = @ + 1]
                          ELSE rlLog, now)
     /\ rlWin' = [rlWin EXCEPT ![id] = Called(@, now)]
     /\ UNCHANGED <<now, notRl>>

RlCleanup ==
  /\ rlStore' = CleanupStore(rlStore, now)
  /\ UNCHANGED <<now, rlOp, rlLog, rlUsed, rlWin, notRl>>

RlTick ==
  /\ now + MsPerSec <= RlTicks * MsPerSec
  /\ now' = now + MsPerSec
  /\ rlLog' = Recent(rlLog, now')
  /\ UNCHANGED <<rlStore, rlOp, rlUsed, rlWin, notRl>>

NoRlOp == [id |-> <<"", "">>, allowed |-> TRUE, remaining |-> 0,
           resetTime |-> 0, retryAfter |-> -1]

RlInit ==
  /\ rlStore = <<>>
  /\ rlOp = NoRlOp
  /\ rlLog = [id \in ClientIds |-> [s \in Times |-> 0]]
  /\ rlUsed = 0
  /\ rlWin = [id \in ClientIds |-> NoWindow]

RlNext ==
  \/ RlTick
  \/ \E req \in RlRequests : RlCheck(req)
  \/ RlCleanup

----------------------------------------------------------------------------
(* /api/metrics *)

\* An Authorization header is a sequence of pieces of text: "Bearer ", the
\* text of METRICS_TOKEN ("T") or other text ("X"); <<>> is no header.
METRICS_TOKEN == <<"T">>
AuthHeaders ==
  {<<>>, <<"Bearer ", "T">>, <<"Bearer ", "X">>, <<"T">>, <<"T", "Bearer ">>}

\* String.replace(piece, ''): the text without the first occurrence of piece
RECURSIVE ReplaceFirst(_, _)
ReplaceFirst(h, piece) ==
  IF h = <<>> THEN <<>>
  ELSE IF Head(h) = piece THEN Tail(h)
  ELSE <<Head(h)>> \o ReplaceFirst(Tail(h), piece)

\* verifyAuth that lets every request in
verifyAuth_open(req) == TRUE

\* verifyAuth: no header gives token undefined, which is not METRICS_TOKEN
verifyAuth(req) ==
  \/ publicMetrics
  \/ /\ req.auth # <<>>
     /\ ReplaceFirst(req.auth, "Bearer ") = METRICS_TOKEN

\* The body of a POST: text that is no JSON, or an object of which the
\* handler reads name, value (a number or not) and unit
BadJson == [json |-> FALSE, name |-> "", isNumber |-> FALSE, value |-> 0, unit |-> ""]
Body(name, isNumber, unit) ==
  [json |-> TRUE, name |-> name, isNumber |-> isNumber, value |-> 1, unit |-> unit]
Bodies ==
  {BadJson, Body("m", TRUE, "ms"), Body("", TRUE, "ms"), Body("m", FALSE, "ms"),
   Body("m", TRUE, "")}
NoBody == BadJson

MetricNames == {"m"}

\* The one client of the route in this model
RouteClient == [xff |-> <<>>, realIp |-> "", ip |-> "a", ua |-> NoUA]

MetricsRequests ==
  [method : {"GET"}, auth : AuthHeaders, metric : {""}, body : {NoBody}]
  \cup [method : {"POST"}, auth : AuthHeaders, metric : {""}, body : Bodies]
  \cup [method : {"DELETE"}, auth : AuthHeaders, metric : {"", "m"}, body : {NoBody}]

LimiterMax(method) ==
  CASE method = "GET" -> MetricsGetMax
    [] method = "POST" -> MetricsPostMax
    [] OTHER -> MetricsDeleteMax

\* The requests of one method in one run: enough DELETEs to be refused
Budget(method) ==
  IF method = "DELETE" THEN MetricsDeleteMax + 1 ELSE MethodBudget

LimiterWindow(method) ==
  IF method = "DELETE" THEN MetricsDeleteWindowMs ELSE MetricsWindowMs

\* addMetric: push a sample onto the list of its name
addMetric(ms, name, value, t) ==
  [ms EXCEPT ![name] = Append(@, [value |-> value, timestamp |-> t])]

\* What a handler does: the status it answers with, the samples and whether
\* cacheManager.clearAll() ran
MetricsGET(req) ==
  IF ~verifyAuth(req)
    THEN [status |-> 401, metrics |-> metrics, clear |-> FALSE]
    ELSE [status |-> 200, metrics |-> metrics, clear |-> FALSE]

MetricsPOST(req) ==
  IF ~verifyAuth(req)
    THEN [status |-> 401, metrics |-> metrics, clear |-> FALSE]
  ELSE IF ~req.body.json
    THEN [status |-> 500, metrics |-> metrics, clear |-> FALSE]
  ELSE IF req.body.name = "" \/ ~req.body.isNumber \/ req.body.unit = ""
    THEN [status |-> 400, metrics |-> metrics, clear |-> FALSE]
  ELSE [status |-> 200, clear |-> FALSE,
        metrics |-> addMetric(metrics, req.body.name, req.body.value, now)]

MetricsDELETE(req) ==
  IF ~verifyAuth(req)
    THEN [status |-> 401, metrics |-> metrics, clear |-> FALSE]
  ELSE IF req.metric # ""
    THEN [status |-> 200, metrics |-> metrics, clear |-> FALSE]
  ELSE [status |-> 200, metrics |-> metrics, clear |-> TRUE]

Handler(req) ==
  CASE req.method = "GET" -> MetricsGET(req)
    [] req.method = "POST" -> MetricsPOST(req)
    [] OTHER -> MetricsDELETE(req)

\* The headers of a response are pairs of a name and a value; a number
\* stands for its toString() and a time for its toISOString(), both of
\* which tell different values apart.
RateLimitHeaders(result, max) ==
  {<<"X-RateLimit-Limit", max>>,
   <<"X-RateLimit-Remaining", result.remaining>>,
   <<"X-RateLimit-Reset", result.resetTime>>}

\* createResponse() that lets a request through while remaining > 0
createResponse_byRemaining(result, max) ==
  IF result.remaining > 0
    THEN [null |-> TRUE, status |-> 0, headers |-> {}]
    ELSE [null |-> FALSE, status |-> 429,
          headers |-> RateLimitHeaders(result, max) \cup
            {<<"Retry-After", IF result.retryAfter = -1 THEN DefaultRetryAfter
                              ELSE result.retryAfter>>}]

\* createResponse(): null for an allowed request, the 429 response otherwise;
\* result.retryAfter?.toString() || '60' is '60' only for an undefined
\* retryAfter, the string of a number being never empty
createResponse(result, max) ==
  IF result.allowed
    THEN [null |-> TRUE, status |-> 0, headers |-> {}]
    ELSE [null |-> FALSE, status |-> 429,
          headers |-> RateLimitHeaders(result, max) \cup
            {<<"Retry-After", IF result.retryAfter = -1 THEN DefaultRetryAfter
                              ELSE result.retryAfter>>}]

\* withRateLimit(handler, limiter): 429 without running the handler when the
\* limiter refuses, the handler's response with the X-RateLimit headers set
\* otherwise
MetricsRequest(req) ==
  LET r == Check(mStores[req.method], getClientId(RouteClient), now,
                 LimiterMax(req.method), LimiterWindow(req.method))
      limitResponse == createResponse(r, LimiterMax(req.method))
      h == Handler(req)
  IN /\ mUsed[req.method] < Budget(req.method)
     /\ mUsed' = [mUsed EXCEPT ![req.method] = @ + 1]
     /\ mStores' = [mStores EXCEPT ![req.method] = r.store]
     /\ IF limitResponse.null
          THEN /\ metrics' = h.metrics
               /\ mResp' = [method |-> req.method, auth |-> req.auth,
                            metric |-> req.metric, status |-> h.status,
                            handled |-> TRUE, allowed |-> r.allowed,
                            headers |->
                              RateLimitHeaders(r, LimiterMax(req.method))]
               /\ IF h.clear
                    THEN /\ cache' = <<>>
                         /\ cacheOp' = Op("clear", 0, NULL)
                         /\ ghost' = Remember(ghost, <<>>)
                    ELSE UNCHANGED <<cache, cacheOp, ghost>>
          ELSE /\ mResp' = [method |-> req.method, auth |-> req.auth,
                            metric |-> req.metric,
                            status |-> limitResponse.status,
                            handled |-> FALSE, allowed |-> r.allowed,
                            headers |-> limitResponse.headers]
               /\ UNCHANGED <<metrics, cache, cacheOp, ghost>>
     /\ UNCHANGED <<now, strategy, publicMetrics, notMetrics>>

NoResp == [method |-> "", auth |-> <<>>, metric |-> "", status |-> 0,
           handled |-> FALSE, allowed |-> FALSE, headers |-> {}]

MetricsInit(public) ==
  /\ publicMetrics = public
  /\ mStores = [m \in {"GET", "POST", "DELETE"} |-> <<>>]
  /\ metrics = [n \in MetricNames |-> <<>>]
  /\ mResp = NoResp
  /\ mUsed = [m \in {"GET", "POST", "DELETE"} |-> 0]

\* The requests of one run fall within one second: no window of a limiter
\* of the route (60 s, 300 s) ends meanwhile.
MetricsNext ==
  \/ \E req \in MetricsRequests : MetricsRequest(req)
  \/ \E k \in {1} : Set(k, "v", NoTtl)

----------------------------------------------------------------------------
(* The security middleware *)

\* A pathname or a parameter value is a sequence of pieces of text; the
\* pieces are chosen so that every text the middleware looks for is a
\* sequence of pieces.
Includes(str, pat) ==
  \E i \in 1..(Len(str) - Len(pat) + 1) : SubSeq(str, i, i + Len(pat) - 1) = pat

StartsWith(str, pat) ==
  Len(str) >= Len(pat) /\ SubSeq(str, 1, Len(pat)) = pat

Pathnames ==
  {<<"/", "api", "/", "data">>,
   <<"/", "api", "/", "auth">>,
   <<"/", "api", "/", "upload">>,
   <<"/", "api", "/", ".", ".", "/", "secret">>,
   <<"/", "api", "/", ".", ".", "\\", "secret">>,
   <<"/", "api", "/", "data", ".", "json">>,
   <<"/", "api", "/", "health-check">>,
   <<"/", "_next", "/", "data">>,
   <<"/", "data">>}

\* The values of the query parameters, in order
Queries ==
  {<<>>,
   << <<"a", "-", "b">> >>,
   << <<"1", "'">> >>,
   << <<"a">>, <<"a", "-", "-">> >>,
   << <<"*">> >>}

allowedOrigins == {"http://localhost:3000"}
allowedContentTypes == {"application/json", "multipart/form-data", "text/csv"}
sensitiveRoutes ==
  {<<"/", "api", "/", "upload">>, <<"/", "api", "/", "database">>,
   <<"/", "api", "/", "auth">>}
publicRoutes == {<<"/", "api", "/", "health">>, <<"/", "api", "/", "health-check">>}

\* origin and contentType "" and contentLength 0 are headers left out
Headers(method, origin, contentType, contentLength) ==
  [method |-> method, origin |-> origin, contentType |-> contentType,
   contentLength |-> contentLength]
HeaderSets ==
  {Headers("GET", "", "", 0),
   Headers("POST", "http://localhost:3000", "application/json", 10),
   Headers("POST", "http://evil.example", "application/json", 10),
   Headers("POST", "http://localhost:3000", "", 0),
   Headers("POST", "http://localhost:3000", "text/csv", MaxRequestSize + 1)}

MwRequests == [path : Pathnames, query : Queries, headers : HeaderSets]

\* getRateLimiter
getRateLimiter(path) ==
  IF Includes(path, <<"/", "upload">>) THEN "upload"
  ELSE IF Includes(path, <<"/", "auth">>) \/ Includes(path, <<"/", "login">>)
    THEN "auth"
  ELSE "api"

MwMax(l) == CASE l = "upload" -> UploadMax [] l = "auth" -> AuthMax [] OTHER -> ApiMax
MwWindow(l) ==
  CASE l = "upload" -> UploadWindowMs [] l = "auth" -> AuthWindowMs
    [] OTHER -> ApiWindowMs

\* validateSecurityHeaders: the errors it finds
validateSecurityHeaders(req) ==
  LET h == req.headers
      sensitive == \E route \in sensitiveRoutes : StartsWith(req.path, route)
  IN (IF sensitive /\ h.contentLength # 0 /\ ~(h.contentLength <= MaxRequestSize)
        THEN {"Request size exceeds maximum allowed"} ELSE {})
     \cup (IF sensitive /\ h.method # "GET"
              /\ ~(h.contentType # "" /\ h.contentType \in allowedContentTypes)
        THEN {"Invalid content type"} ELSE {})
     \cup (IF h.method # "GET" /\ ~(h.origin # "" /\ h.origin \in allowedOrigins)
        THEN {"Invalid origin"} ELSE {})

\* The pattern /('|(\-\-)|(;)|(\||\|)|(\*|\*))/i
SqlPattern(value) ==
  \E pat \in {<<"'">>, <<"-", "-">>, <<";">>, <<"|">>, <<"*">>} : Includes(value, pat)

\* detectSuspiciousActivity: the warnings it gives (the user agent of the
\* model's client is none of the suspicious ones)
detectSuspiciousActivity(req) ==
  (IF Includes(req.path, <<".", ".", "/">>) \/ Includes(req.path, <<".", ".", "\\">>)
     THEN {"Path traversal"} ELSE {})
  \cup (IF \E i \in 1..Len(req.query) : SqlPattern(req.query[i])
     THEN {"SQL injection"} ELSE {})

\* The first test of middleware(): requests that are let through unseen
Skipped(path) ==
  \/ StartsWith(path, <<"/", "_next", "/">>)
  \/ StartsWith(path, <<"/", "static", "/">>)
  \/ Includes(path, <<".">>)
  \/ path \in publicRoutes

\* middleware(): status 0 is NextResponse.next(), the request passed on
Middleware(req) ==
  LET l == getRateLimiter(req.path)
      limited == ~Skipped(req.path) /\ StartsWith(req.path, <<"/", "api", "/">>)
      r == Check(mwStores[l], getClientId(RouteClient), now, MwMax(l), MwWindow(l))
      status ==
        IF Skipped(req.path) THEN 0
        ELSE IF limited /\ ~r.allowed THEN 429
        ELSE IF validateSecurityHeaders(req) # {} THEN 400
        ELSE IF detectSuspiciousActivity(req) # {} THEN 403
        ELSE 0
  IN /\ limited => mwUsed[l] < (IF l = "auth" THEN AuthMax + 1 ELSE MwBudget)
     /\ mwUsed' = IF limited THEN [mwUsed EXCEPT ![l] = @ + 1] ELSE mwUsed
     /\ mwStores' = IF limited THEN [mwStores EXCEPT ![l] = r.store] ELSE mwStores
     /\ mwResp' = [path |-> req.path, query |-> req.query, status |-> status,
                   next |-> status = 0]
     /\ UNCHANGED <<now, notMiddleware>>

MwInit ==
  /\ mwStores = [l \in {"api", "upload", "auth"} |-> <<>>]
  /\ mwResp = [path |-> <<>>, query |-> <<>>, status |-> 0, next |-> FALSE]
  /\ mwUsed = [l \in {"api", "upload", "auth"} |-> 0]

MwNext == \E req \in MwRequests : Middleware(req)

----------------------------------------------------------------------------
(* The ErrorMonitor and /api/health-check *)

\* The monitor is created when the module is loaded, at time 0.
startTime == 0

\* calculateErrorRate: totalErrors / max(1, minutes of uptime), kept as the
\* fraction num / den so that no division rounds it
calculateErrorRate(totalErrors, t) ==
  [num |-> totalErrors * MsPerMinute, den |-> Max(MsPerMinute, t - startTime)]

\* recordError, called by whatever part of the application caught an error
RecordError ==
  /\ errorMetrics.totalErrors < MaxErrors
  /\ errorMetrics' =
       [totalErrors |-> errorMetrics.totalErrors + 1,
        errorRate |-> calculateErrorRate(errorMetrics.totalErrors + 1, now)]
  /\ UNCHANGED <<now, hcEnv, hcResp, notHealth>>

\* A minute passes
MinuteTick ==
  /\ now + MsPerMinute <= HcMinutes * MsPerMinute
  /\ now' = now + MsPerMinute
  /\ UNCHANGED <<hcVars, notHealth>>

\* Each probe of getHealthStatus awaits an operation inside try/catch; throws
\* says whether the awaited operation threw.
checkDatabase(throws) == IF throws THEN "fail" ELSE "pass"
checkExternalAPIs(throws) == IF throws THEN "warn" ELSE "pass"
checkFileSystem(throws) == IF throws THEN "fail" ELSE "pass"

Probes == [database : BOOLEAN, externalAPIs : BOOLEAN, fileSystem : BOOLEAN]

\* getHealthStatus: the overall status
getHealthStatus(probes, em) ==
  LET checks == {checkDatabase(probes.database),
                 checkExternalAPIs(probes.externalAPIs),
                 checkFileSystem(probes.fileSystem)}
      hasFailures == "fail" \in checks
      hasWarnings == "warn" \in checks
  IN IF hasFailures THEN "unhealthy"
     ELSE IF hasWarnings
             \/ em.errorRate.num > DegradedErrorRate * em.errorRate.den
       THEN "degraded"
     ELSE "healthy"

\* HEALTH_CHECK_TOKEN, <<>> when it is not set
HEALTH_CHECK_TOKEN == <<"H">>
HcEnvs == [token : {<<>>, HEALTH_CHECK_TOKEN}, production : BOOLEAN]
DevEnvs == {[token |-> <<>>, production |-> FALSE]}

\* The Authorization header and the token parameter of the query; <<>> is a
\* header or a parameter that is absent or empty
HcRequests ==
  [method : {"GET", "HEAD"},
   auth : {<<>>, <<"Bearer ", "H">>, <<"Bearer ", "X">>, <<"Bearer ">>, <<"H">>},
   token : {<<>>, <<"H">>, <<"X">>},
   probes : Probes]

\* verifyHealthCheckToken that lets every request in when no token is
\* configured
verifyHealthCheckToken_noEnvCheck(req, env) ==
  LET fromHeader == ReplaceFirst(req.auth, "Bearer ")
      token == IF fromHeader # <<>> THEN fromHeader ELSE req.token
  IN IF env.token = <<>> THEN TRUE
     ELSE token = env.token

\* verifyHealthCheckToken
verifyHealthCheckToken(req, env) ==
  LET fromHeader == ReplaceFirst(req.auth, "Bearer ")
      token == IF fromHeader # <<>> THEN fromHeader ELSE req.token
  IN IF env.token = <<>> THEN ~env.production
     ELSE token = env.token

\* The switch on healthStatus.status in GET and in HEAD
statusCode_degradedUnavailable(status) ==
  CASE status = "healthy" -> 200
    [] status = "degraded" -> 503
    [] status = "unhealthy" -> 503
    [] OTHER -> 500

statusCode(status) ==
  CASE status = "healthy" -> 200
    [] status = "degraded" -> 200
    [] status = "unhealthy" -> 503
    [] OTHER -> 500

\* GET and HEAD of /api/health-check
HealthCheck(req) ==
  LET authorized == verifyHealthCheckToken(req, hcEnv)
      health == getHealthStatus(req.probes, errorMetrics)
  IN /\ hcResp' =
          IF ~authorized
            THEN [method |-> req.method, auth |-> req.auth,
                  token |-> req.token, authorized |-> FALSE,
                  health |-> "none", status |-> 401]
            ELSE [method |-> req.method, auth |-> req.auth,
                  token |-> req.token, authorized |-> TRUE,
                  health |-> health, status |-> statusCode(health)]
     /\ UNCHANGED <<now, hcEnv, errorMetrics, notHealth>>

NoHcResp == [method |-> "none", auth |-> <<>>, token |-> <<>>,
             authorized |-> FALSE, health |-> "none", status |-> 0]

HcInit(envs) ==
  /\ hcEnv \in envs
  /\ errorMetrics = [totalErrors |-> 0, errorRate |-> [num |-> 0, den |-> 1]]
  /\ hcResp = NoHcResp

HcNext ==
  \/ \E req \in HcRequests : HealthCheck(req)
  \/ RecordError
  \/ MinuteTick

----------------------------------------------------------------------------
(* The wizard (Home) and its step components *)

Steps == <<"upload", "analyze", "transform", "publish">>
Files == {1, 2}        \* the files a user may drop; 0 is null

\* handleStepComplete: the step and the data of the page after the call
handleStepComplete_restart(step, data, cur, pd) ==
  CASE step = "upload" ->
         [currentStep |-> "analyze", pageData |-> [pd EXCEPT !.uploadedData = data]]
    [] step = "analyze" ->
         [currentStep |-> "transform", pageData |-> [pd EXCEPT !.analysisResult = data]]
    [] step = "transform" ->
         [currentStep |-> "upload", pageData |-> [pd EXCEPT !.transformedData = data]]
    [] OTHER -> [currentStep |-> cur, pageData |-> pd]

handleStepComplete(step, data, cur, pd) ==
  CASE step = "upload" ->
         [currentStep |-> "analyze", pageData |-> [pd EXCEPT !.uploadedData = data]]
    [] step = "analyze" ->
         [currentStep |-> "transform", pageData |-> [pd EXCEPT !.analysisResult = data]]
    [] step = "transform" ->
         [currentStep |-> "publish", pageData |-> [pd EXCEPT !.transformedData = data]]
    [] OTHER -> [currentStep |-> cur, pageData |-> pd]

\* A component that has just been mounted
NoChild == [preview |-> 0, apiKey |-> FALSE, result |-> 0]

\* renderStepContent: the component on the page
Mounted ==
  IF useAdaptiveInterface /\ pageData.uploadedData # 0 /\ currentStep = "analyze"
    THEN "AdaptiveInterface"
  ELSE CASE currentStep = "upload" -> "FileUploader"
         [] currentStep = "analyze" -> "SchemaAnalyzer"
         [] currentStep = "transform" -> "DataTransformer"
         [] OTHER -> "OutputPublisher"

\* The onComplete of the mounted component's step
Complete(step, data) ==
  LET r == handleStepComplete(step, data, currentStep, pageData)
  IN /\ currentStep' = r.currentStep
     /\ pageData' = r.pageData
     /\ child' = NoChild
     /\ completions' = completions \cup {step}

wizRest == <<useAdaptiveInterface, isPublishing, publishResult, pubForm, pubRun>>

\* The checkbox; SchemaAnalyzer and AdaptiveInterface replace one another
ToggleAdaptive ==
  /\ useAdaptiveInterface' = ~useAdaptiveInterface
  /\ child' = IF currentStep = "analyze" /\ pageData.uploadedData # 0
                THEN NoChild ELSE child
  /\ UNCHANGED <<currentStep, pageData, isPublishing, publishResult, pubForm,
                 pubRun, completions, notWizard>>

\* FileUploader.processFile: a file that parses becomes the preview
ProcessFile(file, parses) ==
  /\ Mounted = "FileUploader"
  /\ child' = IF parses THEN [child EXCEPT !.preview = file] ELSE child
  /\ UNCHANGED <<currentStep, pageData, completions, wizRest, notWizard>>

\* FileUploader.handleReset
UploadReset ==
  /\ Mounted = "FileUploader"
  /\ child' = [child EXCEPT !.preview = 0]
  /\ UNCHANGED <<currentStep, pageData, completions, wizRest, notWizard>>

\* FileUploader.handleConfirm
UploadConfirm ==
  /\ Mounted = "FileUploader"
  /\ child.preview # 0
  /\ Complete("upload", child.preview)
  /\ UNCHANGED <<wizRest, notWizard>>

\* SchemaAnalyzer: the API key field
SetApiKey(given) ==
  /\ Mounted = "SchemaAnalyzer"
  /\ child' = [child EXCEPT !.apiKey = given]
  /\ UNCHANGED <<currentStep, pageData, completions, wizRest, notWizard>>

\* SchemaAnalyzer.handleAnalyze: the AI service answers or fails
Analyze(answers) ==
  /\ Mounted = "SchemaAnalyzer"
  /\ child.apiKey
  /\ child' = IF answers THEN [child EXCEPT !.result = pageData.uploadedData]
              ELSE child
  /\ UNCHANGED <<currentStep, pageData, completions, wizRest, notWizard>>

\* SchemaAnalyzer.handleConfirm
AnalyzeConfirm ==
  /\ Mounted = "SchemaAnalyzer"
  /\ child.result # 0
  /\ Complete("analyze", child.result)
  /\ UNCHANGED <<wizRest, notWizard>>

\* DataTransformer.handleTransform
Transform(works) ==
  /\ Mounted = "DataTransformer"
  /\ child' = IF works THEN [child EXCEPT !.result = pageData.analysisResult]
              ELSE child
  /\ UNCHANGED <<currentStep, pageData, completions, wizRest, notWizard>>

\* DataTransformer.handleConfirm
TransformConfirm ==
  /\ Mounted = "DataTransformer"
  /\ child.result # 0
  /\ Complete("transform", child.result)
  /\ UNCHANGED <<wizRest, notWizard>>

----------------------------------------------------------------------------
(* OutputPublisher and DatabaseService *)

\* A connection string is a sequence of pieces of text: a scheme with its
\* "://", ":", "@", "/", " ", digits, or a word with none of these in it.
Schemes == {"postgresql://", "mysql://", "sqlite:///", "sqlserver://"}
DigitPieces == {"5432"}
Postgres == <<"postgresql://", "u", ":", "p", "@", "h", ":", "5432", "/", "d">>
ConnectionStrings ==
  {<<>>, <<" ">>, Postgres, <<" ">> \o Postgres, <<"sqlite:///", "d">>,
   <<"postgresql://", "h", "/", "d">>,
   <<"mysql://", "u", ":", "p", "@", "h", ":", "x", "/", "d">>}

\* String.trim()
RECURSIVE TrimStart(_)
TrimStart(str) ==
  IF str # <<>> /\ Head(str) = " " THEN TrimStart(Tail(str)) ELSE str
RECURSIVE TrimEnd(_)
TrimEnd(str) ==
  IF str # <<>> /\ str[Len(str)] = " " THEN TrimEnd(SubSeq(str, 1, Len(str) - 1))
  ELSE str
Trim(str) == TrimEnd(TrimStart(str))

\* The pieces from..to of str are one or more, none of them in the set
Without(str, from, to, excluded) ==
  /\ from <= to
  /\ \A n \in from..to : str[n] \notin excluded /\ str[n] \notin Schemes

\* /^scheme([^:]+):([^@]+)@([^:]+):(\d+)\/(.+)$/
NetworkMatch(str, scheme) ==
  /\ str # <<>> /\ str[1] = scheme
  /\ \E i, j, k, l \in 2..Len(str) :
       /\ str[i] = ":" /\ str[j] = "@" /\ str[k] = ":" /\ str[l] = "/"
       /\ Without(str, 2, i - 1, {":"})
       /\ i < j /\ \A n \in (i + 1)..(j - 1) : str[n] # "@"
       /\ i + 1 <= j - 1
       /\ Without(str, j + 1, k - 1, {":"})
       /\ k + 1 <= l - 1 /\ \A n \in (k + 1)..(l - 1) : str[n] \in DigitPieces
       /\ l < Len(str)

\* DatabaseService.parseConnectionString: isValid
parseConnectionString(str) ==
  \/ NetworkMatch(str, "postgresql://")
  \/ NetworkMatch(str, "mysql://")
  \/ (str # <<>> /\ str[1] = "sqlite:///" /\ Len(str) >= 2)
  \/ NetworkMatch(str, "sqlserver://")

\* DatabaseService.publishData: what it resolves to
publishData_reportsSuccess(str) == [success |-> TRUE, error |-> ""]

publishData(str) ==
  IF ~parseConnectionString(str)
    THEN [success |-> FALSE, error |-> "String de conexao invalida"]
    ELSE [success |-> TRUE, error |-> ""]

NoPublishResult == [null |-> TRUE, success |-> FALSE, error |-> ""]
NoPubRun == [pc |-> "idle", type |-> "none", connectionString |-> <<>>,
             outcome |-> "none"]

TargetTypes == {"rest-api", "database", "file"}

\* The fields of the form
SelectTarget(type) ==
  /\ Mounted = "OutputPublisher"
  /\ pubForm' = [pubForm EXCEPT !.type = type]
  /\ UNCHANGED <<currentStep, useAdaptiveInterface, pageData, child, isPublishing,
                 publishResult, pubRun, completions, notWizard>>

SetEndpoint(given) ==
  /\ Mounted = "OutputPublisher"
  /\ pubForm' = [pubForm EXCEPT !.endpoint = given]
  /\ UNCHANGED <<currentStep, useAdaptiveInterface, pageData, child, isPublishing,
                 publishResult, pubRun, completions, notWizard>>

SetConnectionString(str) ==
  /\ Mounted = "OutputPublisher"
  /\ pubForm' = [pubForm EXCEPT !.connectionString = str]
  /\ UNCHANGED <<currentStep, useAdaptiveInterface, pageData, child, isPublishing,
                 publishResult, pubRun, completions, notWizard>>

\* The button of handlePublish is rendered while there is no publishResult
PublishDisabled ==
  \/ isPublishing
  \/ (pubForm.type = "rest-api" /\ ~pubForm.endpoint)
  \/ (pubForm.type = "database" /\ Trim(pubForm.connectionString) = <<>>)

\* handlePublish up to its first await: setIsPublishing(true) and the timer
HandlePublish ==
  /\ Mounted = "OutputPublisher"
  /\ publishResult.null
  /\ ~PublishDisabled
  /\ isPublishing' = TRUE
  /\ pubRun' = [pc |-> "timer", type |-> pubForm.type,
                connectionString |-> pubForm.connectionString, outcome |-> "none"]
  /\ UNCHANGED <<currentStep, useAdaptiveInterface, pageData, child, publishResult,
                 pubForm, completions, notWizard>>

\* The end of handlePublish: setPublishResult in try or in catch, then
\* finally setIsPublishing(false)
Settle_noFinally(threw, error) ==
  [isPublishing |-> threw,
   publishResult |-> [null |-> FALSE, success |-> ~threw, error |-> error]]

Settle(threw, error) ==
  [isPublishing |-> FALSE,
   publishResult |-> [null |-> FALSE, success |-> ~threw, error |-> error]]

\* The rest of a run that does not wait again
Finish(threw, error) ==
  LET end == Settle(threw, error)
  IN /\ isPublishing' = end.isPublishing
     /\ publishResult' = end.publishResult
     /\ pubRun' = [pubRun EXCEPT !.pc = "done",
                     !.outcome = IF threw THEN "threw" ELSE "published"]
     /\ completions' = IF threw THEN completions ELSE completions \cup {"publish"}
     /\ LET r == handleStepComplete("publish", 0, currentStep, pageData)
        IN IF threw THEN UNCHANGED <<currentStep, pageData>>
           ELSE currentStep' = r.currentStep /\ pageData' = r.pageData
     /\ UNCHANGED <<useAdaptiveInterface, child, pubForm, notWizard>>

\* handlePublish after the timer: the switch on selectedTarget.type
PublishTimer ==
  /\ pubRun.pc = "timer"
  /\ IF pubRun.type # "database" THEN Finish(FALSE, "")
     ELSE IF Trim(pubRun.connectionString) = <<>>
       THEN Finish(TRUE, "String de conexao e obrigatoria")
     ELSE /\ pubRun' = [pubRun EXCEPT !.pc = "db"]
          /\ UNCHANGED <<currentStep, useAdaptiveInterface, pageData, child,
                         isPublishing, publishResult, pubForm, completions,
                         notWizard>>

\* handlePublish after dbService.publishData has resolved
PublishDataDone ==
  /\ pubRun.pc = "db"
  /\ LET dbResult == publishData(pubRun.connectionString)
     IN Finish(~dbResult.success, dbResult.error)

WizInit ==
  /\ currentStep = "upload"
  /\ useAdaptiveInterface = FALSE
  /\ pageData = [uploadedData |-> 0, analysisResult |-> 0, transformedData |-> 0]
  /\ child = NoChild
  /\ isPublishing = FALSE
  /\ publishResult = NoPublishResult
  /\ pubForm = [type |-> "rest-api", endpoint |-> FALSE, connectionString |-> <<>>]
  /\ pubRun = NoPubRun
  /\ completions = {}

WizNext ==
  \/ ToggleAdaptive
  \/ \E file \in Files, parses \in BOOLEAN : ProcessFile(file, parses)
  \/ UploadReset
  \/ UploadConfirm
  \/ \E given \in BOOLEAN : SetApiKey(given)
  \/ \E answers \in BOOLEAN : Analyze(answers)
  \/ AnalyzeConfirm
  \/ \E works \in BOOLEAN : Transform(works)
  \/ TransformConfirm
  \/ \E type \in TargetTypes : SelectTarget(type)
  \/ \E given \in BOOLEAN : SetEndpoint(given)
  \/ \E str \in ConnectionStrings : SetConnectionString(str)
  \/ HandlePublish
  \/ PublishTimer
  \/ PublishDataDone


----------------------------------------------------------------------------
(* CacheCompressionMiddleware *)

excludePaths == {<<"/", "api", "/", "health-check">>, <<"/", "api", "/", "metrics">>}

\* shouldExclude
shouldExclude(path) == \E prefix \in excludePaths : StartsWith(path, prefix)

CcPaths ==
  {<<"/", "api", "/", "data">>, <<"/", "api", "/", "schema">>,
   <<"/", "api", "/", "metrics">>}
CcRequests == [method : {"GET", "POST"}, path : CcPaths, acceptEncoding : BOOLEAN]

\* generateCacheKey: the method and the pathname (the requests of this model
\* have no query and the same headers)
generateCacheKey(req) == <<req.method, req.path>>

\* One invocation of the wrapped handler: it resolves to a response with a
\* status, compressible or not, or it throws
HandlerOutcomes ==
  {[throws |-> TRUE, status |-> 0, compressible |-> FALSE],
   [throws |-> FALSE, status |-> 200, compressible |-> TRUE],
   [throws |-> FALSE, status |-> 200, compressible |-> FALSE],
   [throws |-> FALSE, status |-> 500, compressible |-> TRUE]}

\* shouldCompress
shouldCompress(req, response) == req.acceptEncoding /\ response.compressible

\* shouldCache
shouldCache(response) == ~(response.status >= 400)

\* What the caller of the wrapped function gets
CcAnswer(req, calls, result, status, compressed, cached) ==
  [key |-> generateCacheKey(req), calls |-> calls, result |-> result,
   status |-> status, compressed |-> compressed, cached |-> cached]

\* The function wrap() returns, called with a request; first and second are
\* what the handler does when it is invoked a first and a second time
Wrap(req, first, second) ==
  LET key == generateCacheKey(req)
      \* the catch block: the handler is invoked again, without middleware
      caught ==
        IF second.throws THEN CcAnswer(req, 2, "throws", 0, FALSE, FALSE)
        ELSE CcAnswer(req, 2, "response", second.status, FALSE, FALSE)
  IN /\ UNCHANGED <<ccConfig, notCc>>
     /\ IF shouldExclude(req.path) THEN
          /\ ccCache' = ccCache
          /\ ccResp' = IF first.throws THEN caught
                       ELSE CcAnswer(req, 1, "response", first.status, FALSE, FALSE)
        ELSE IF ccConfig.enableCache /\ key \in ccCache THEN
          /\ ccCache' = ccCache
          /\ ccResp' = CcAnswer(req, 0, "hit", 200, FALSE, TRUE)
        ELSE IF first.throws THEN
          /\ ccCache' = ccCache
          /\ ccResp' = caught
        ELSE
          LET compressed == ccConfig.enableCompression /\ shouldCompress(req, first)
              cached == ccConfig.enableCache /\ shouldCache(first)
          IN /\ ccCache' = IF cached THEN ccCache \cup {key} ELSE ccCache
             /\ ccResp' = CcAnswer(req, 1, "response", first.status, compressed,
                                   cached)

\* An entry of the 'api' cache expires or is evicted
CcExpire(key) ==
  /\ key \in ccCache
  /\ ccCache' = ccCache \ {key}
  /\ UNCHANGED <<ccConfig, ccResp, notCc>>

NoCcResp ==
  [key |-> <<>>, calls |-> 0, result |-> "none", status |-> 0,
   compressed |-> FALSE, cached |-> FALSE]

CcConfigs == [enableCache : BOOLEAN, enableCompression : BOOLEAN]

CcInit(configs) ==
  /\ ccConfig \in configs
  /\ ccCache = {}
  /\ ccResp = NoCcResp

CcNext ==
  \/ \E req \in CcRequests, first, second \in HandlerOutcomes : Wrap(req, first, second)
  \/ \E key \in ccCache : CcExpire(key)

----------------------------------------------------------------------------
(* CPF validation: DataValidator and DataTypeInference *)

\* A text is a sequence of characters
DigitChars == <<"0", "1", "2", "3", "4", "5", "6", "7", "8", "9">>
IsDigit(c) == \E n \in 1..Len(DigitChars) : DigitChars[n] = c

\* parseInt of one digit character
parseInt(c) == (CHOOSE n \in 1..Len(DigitChars) : DigitChars[n] = c) - 1

\* value.replace(/\D/g, '')
StripNonDigits(value) == SelectSeq(value, IsDigit)

\* /^\d{3}\.\d{3}\.\d{3}-\d{2}$|^\d{11}$/
CpfFormat(value) ==
  \/ /\ Len(value) = 14
     /\ value[4] = "." /\ value[8] = "." /\ value[12] = "-"
     /\ \A n \in (1..14) \ {4, 8, 12} : IsDigit(value[n])
  \/ /\ Len(value) = 11
     /\ \A n \in 1..11 : IsDigit(value[n])

\* /^(\d)\1{10}$/
AllEqual(numbers) ==
  Len(numbers) = 11 /\ \A n \in 1..11 : numbers[n] = numbers[1]

\* for (let i = 0; i < count; i++) sum += parseInt(cpf[i]) * (top - i)
RECURSIVE WeightedSum(_, _, _, _)
WeightedSum(cpf, i, count, top) ==
  IF i >= count THEN 0
  ELSE parseInt(cpf[i + 1]) * (top - i) + WeightedSum(cpf, i + 1, count, top)

\* validateCPFChecksum
validateCPFChecksum_noWrap(cpf) ==
  LET digit1 == 11 - (WeightedSum(cpf, 0, 9, 10) % 11)
      digit2 == 11 - (WeightedSum(cpf, 0, 10, 11) % 11)
  IN parseInt(cpf[10]) = digit1 /\ parseInt(cpf[11]) = digit2

validateCPFChecksum(cpf) ==
  LET raw1 == 11 - (WeightedSum(cpf, 0, 9, 10) % 11)
      digit1 == IF raw1 > 9 THEN 0 ELSE raw1
      raw2 == 11 - (WeightedSum(cpf, 0, 10, 11) % 11)
      digit2 == IF raw2 > 9 THEN 0 ELSE raw2
  IN parseInt(cpf[10]) = digit1 /\ parseInt(cpf[11]) = digit2

\* DataValidator.validateCPF: result.isValid
validateCPF(value) ==
  LET numbers == StripNonDigits(value)
  IN /\ CpfFormat(value)
     /\ Len(numbers) = 11
     /\ ~AllEqual(numbers)
     /\ validateCPFChecksum(numbers)

\* DataTypeInference.validateCPF, which computes the digits itself
inferenceValidateCPF(cpf) ==
  LET numbers == StripNonDigits(cpf)
  IN IF Len(numbers) # 11 THEN FALSE
     ELSE IF AllEqual(numbers) THEN FALSE
     ELSE LET raw1 == 11 - (WeightedSum(numbers, 0, 9, 10) % 11)
              digit1 == IF raw1 > 9 THEN 0 ELSE raw1
              raw2 == 11 - (WeightedSum(numbers, 0, 10, 11) % 11)
              digit2 == IF raw2 > 9 THEN 0 ELSE raw2
          IN parseInt(numbers[10]) = digit1 /\ parseInt(numbers[11]) = digit2

\* The numbers tried: nine digits a b a b a b a b a and any two check digits,
\* written as 11 digits or as 123.456.789-00
CpfDigits(a, b, c, d) ==
  <<DigitChars[a], DigitChars[b], DigitChars[a], DigitChars[b], DigitChars[a],
    DigitChars[b], DigitChars[a], DigitChars[b], DigitChars[a], DigitChars[c],
    DigitChars[d]>>
formatCPF(cpf) ==
  SubSeq(cpf, 1, 3) \o <<".">> \o SubSeq(cpf, 4, 6) \o <<".">> \o SubSeq(cpf, 7, 9)
    \o <<"-">> \o SubSeq(cpf, 10, 11)
CpfValues ==
  LET plain == {CpfDigits(a, b, c, d) : a, b, c, d \in 1..Len(DigitChars)}
  IN plain \cup {formatCPF(cpf) : cpf \in plain}

NoCpfResult == [done |-> FALSE, validator |-> FALSE, inference |-> FALSE]

\* Both validators are applied to the value
ValidateCpf ==
  /\ ~cpfResult.done
  /\ cpfResult' = [done |-> TRUE, validator |-> validateCPF(cpfValue),
                   inference |-> inferenceValidateCPF(cpfValue)]
  /\ UNCHANGED <<cpfValue, notCpf>>

CpfInit(values) ==
  /\ cpfValue \in values
  /\ cpfResult = NoCpfResult

----------------------------------------------------------------------------
(* PerformanceCollector: the alerts *)

\* The metrics given to checkAlerts in the runs; a threshold of 0 stands
\* for a metric without a threshold (both are falsy)
AlertMetrics == {"cpu.usage", "error.rate"}
DefaultThresholds ==
  [m \in AlertMetrics |->
     IF m = "cpu.usage" THEN CpuUsageThreshold ELSE ErrorRateThreshold]
AlertConfigs ==
  {DefaultThresholds, [DefaultThresholds EXCEPT !["error.rate"] = 0]}

\* currentValues: the entries of the object in their order, each a metric
\* with a value at its default threshold or above it
ValuesOf(m) ==
  {[metric |-> m, value |-> DefaultThresholds[m] + d] : d \in {0, 1}}
CurrentValues ==
  {<<e>> : e \in ValuesOf("cpu.usage") \cup ValuesOf("error.rate")}
  \cup {<<e, f>> : e \in ValuesOf("cpu.usage"), f \in ValuesOf("error.rate")}

\* Array.from(this.alerts.values()).find(...): the place of the first
\* unresolved alert of the metric, 0 when there is none
FindUnresolved(as, metric) ==
  LET found == {i \in 1..Len(as) : as[i].metric = metric /\ ~as[i].resolved}
  IN IF found = {} THEN 0 ELSE CHOOSE i \in found : \A j \in found : i <= j

\* The body of the forEach of checkAlerts that resolves an alert only below
\* the threshold
checkAlert_resolvesBelow(as, thresholds, entry, t) ==
  LET threshold == thresholds[entry.metric]
      existing == FindUnresolved(as, entry.metric)
  IN IF threshold = 0 THEN as
     ELSE IF entry.value > threshold /\ existing = 0
       THEN MapSet(as, [key |-> <<entry.metric, t>>, metric |-> entry.metric,
                        threshold |-> threshold, currentValue |-> entry.value,
                        timestamp |-> t, resolved |-> FALSE])
     ELSE IF entry.value < threshold /\ existing # 0
       THEN [as EXCEPT ![existing].resolved = TRUE]
     ELSE as

\* The body of the forEach of checkAlerts that opens a second alert while
\* the value stays above the threshold
checkAlert_noExisting(as, thresholds, entry, t) ==
  LET threshold == thresholds[entry.metric]
      existing == FindUnresolved(as, entry.metric)
  IN IF threshold = 0 THEN as
     ELSE IF entry.value > threshold
       THEN MapSet(as, [key |-> <<entry.metric, t>>, metric |-> entry.metric,
                        threshold |-> threshold, currentValue |-> entry.value,
                        timestamp |-> t, resolved |-> FALSE])
     ELSE IF entry.value <= threshold /\ existing # 0
       THEN [as EXCEPT ![existing].resolved = TRUE]
     ELSE as

\* The body of the forEach of checkAlerts, for one entry of currentValues;
\* the id `alert_${metric}_${Date.now()}` is the key of the alert
checkAlert(as, thresholds, entry, t) ==
  LET threshold == thresholds[entry.metric]
      existing == FindUnresolved(as, entry.metric)
  IN IF threshold = 0 THEN as
     ELSE IF entry.value > threshold /\ existing = 0
       THEN MapSet(as, [key |-> <<entry.metric, t>>, metric |-> entry.metric,
                        threshold |-> threshold, currentValue |-> entry.value,
                        timestamp |-> t, resolved |-> FALSE])
     ELSE IF entry.value <= threshold /\ existing # 0
       THEN [as EXCEPT ![existing].resolved = TRUE]
     ELSE as

NothingRemoved == [cutoff |-> 0, alerts |-> {}, samples |-> {}]

\* checkAlerts(currentValues)
RECURSIVE checkAlerts(_, _, _, _)
checkAlerts(as, thresholds, currentValues, t) ==
  IF currentValues = <<>> THEN as
  ELSE checkAlerts(checkAlert(as, thresholds, Head(currentValues), t),
                   thresholds, Tail(currentValues), t)

CheckAlerts(currentValues) ==
  /\ alerts' = checkAlerts(alerts, alertThresholds, currentValues, now)
  /\ removed' = NothingRemoved
  /\ UNCHANGED <<now, metrics, alertThresholds, notPc>>

\* addMetric(name, value, unit) of the collector
PcAddMetric(name) ==
  /\ Len(metrics[name]) < PcSamples
  /\ metrics' = addMetric(metrics, name, 0, now)
  /\ removed' = NothingRemoved
  /\ UNCHANGED <<now, alerts, alertThresholds, notPc>>

\* The elements of a list
Elements(list) == {list[i] : i \in 1..Len(list)}

\* What a step from samples ms and alerts as to ms2 and as2 took away
Removed(ms, as, ms2, as2, cutoff) ==
  [cutoff |-> cutoff,
   alerts |-> Elements(as) \ Elements(as2),
   samples |-> UNION {Elements(ms[n]) \ Elements(ms2[n]) : n \in MetricNames}]

\* cleanupOldMetrics() that deletes the old alerts, resolved or not
CleanupOldMetrics_anyAlert ==
  LET cutoff == now - RetentionMs
  IN /\ metrics' = [n \in MetricNames |->
                      SelectSeq(metrics[n], LAMBDA m : m.timestamp > cutoff)]
     /\ alerts' = SelectSeq(alerts, LAMBDA a : ~(a.timestamp < cutoff))
     /\ removed' = Removed(metrics, alerts, metrics', alerts', cutoff)
     /\ UNCHANGED <<now, alertThresholds, notPc>>

\* cleanupOldMetrics(): the samples that are not newer than the cutoff and
\* the resolved alerts older than it go
CleanupOldMetrics ==
  LET cutoff == now - RetentionMs
  IN /\ metrics' = [n \in MetricNames |->
                      SelectSeq(metrics[n], LAMBDA m : m.timestamp > cutoff)]
     /\ alerts' = SelectSeq(alerts,
                            LAMBDA a : ~(a.resolved /\ a.timestamp < cutoff))
     /\ removed' = Removed(metrics, alerts, metrics', alerts', cutoff)
     /\ UNCHANGED <<now, alertThresholds, notPc>>

\* getActiveAlerts()
getActiveAlerts(as) == SelectSeq(as, LAMBDA a : ~a.resolved)

\* A millisecond passes
PcTick ==
  /\ now < PcTicks
  /\ now' = now + 1
  /\ removed' = NothingRemoved
  /\ UNCHANGED <<metrics, alerts, alertThresholds, notPc>>

PcInit(configs) ==
  /\ alerts = <<>>
  /\ alertThresholds \in configs
  /\ removed = NothingRemoved

PcNext ==
  \/ \E currentValues \in CurrentValues : CheckAlerts(currentValues)
  \/ CleanupOldMetrics
  \/ \E name \in MetricNames : PcAddMetric(name)
  \/ PcTick

----------------------------------------------------------------------------
(* MemoryCache.getOrSet *)

\* get(key): the Map after it and what it returns
get(c, key, t) ==
  IF ~MapHas(c, key) THEN [cache |-> c, value |-> NULL]
  ELSE IF Expired(MapGet(c, key), t)
    THEN [cache |-> MapDelete(c, key), value |-> NULL]
  ELSE LET e == MapGet(c, key)
       IN [cache |-> MapSet(c, [e EXCEPT !.accessCount = @ + 1,
                                         !.lastAccessed = t]),
           value |-> e.value]

\* set(key, value, ttl): the Map after it
set(c, s, key, value, ttl, t) ==
  LET full == Len(c) >= MaxSize /\ ~MapHas(c, key)
      c1 == IF full THEN Evict(c, s, t) ELSE c
  IN MapSet(c1, [key |-> key, value |-> value, timestamp |-> t,
                 ttl |-> EntryTtl(ttl) * MsPerSec, accessCount |-> 0,
                 lastAccessed |-> t])

Callers == 1..MaxCalls
CallKeys == {1, 2}
FallbackValues == {"v", "w"}

\* A call not made yet. Of a call the properties remember whether the key
\* was absent or expired when it began (miss), whether it ran the fallback
\* (ran) and the calls for the same absent key that were waiting for their
\* fallback when it began or that began while it waited (overlaps).
NoCall == [pc |-> "idle", key |-> 0, value |-> NULL, miss |-> FALSE,
           ran |-> FALSE, overlaps |-> {}]

\* getOrSet up to its await: this.get(key), and on null the call of
\* fallbackFn(), whose promise the call then waits for
GetOrSetBegin(c, key) ==
  LET r == get(cache, key, now)
      miss == ~MapHas(cache, key) \/ Expired(MapGet(cache, key), now)
      waiting == {d \in Callers : getOrSetCalls[d].pc = "awaiting" /\ getOrSetCalls[d].key = key}
      others == IF miss THEN waiting ELSE {}
  IN /\ getOrSetCalls[c].pc = "idle"
     /\ cache' = r.cache
     /\ getOrSetCalls' = [d \in Callers |->
          IF d = c
            THEN [pc |-> IF r.value # NULL THEN "returned" ELSE "awaiting",
                  key |-> key, value |-> r.value, miss |-> miss,
                  ran |-> r.value = NULL, overlaps |-> others]
          ELSE IF d \in others
            THEN [getOrSetCalls[d] EXCEPT !.overlaps = @ \cup {c}]
          ELSE getOrSetCalls[d]]
     /\ UNCHANGED notGetOrSet

\* The promise of fallbackFn() fulfilled: this.set(key, value, ttl) with
\* ttl undefined, return value
GetOrSetResume(c, value) ==
  /\ getOrSetCalls[c].pc = "awaiting"
  /\ cache' = set(cache, strategy, getOrSetCalls[c].key, value, NoTtl, now)
  /\ getOrSetCalls' = [getOrSetCalls EXCEPT ![c].pc = "returned", ![c].value = value]
  /\ UNCHANGED notGetOrSet

\* The promise of fallbackFn() rejected: getOrSet rejects, nothing is set
GetOrSetReject(c) ==
  /\ getOrSetCalls[c].pc = "awaiting"
  /\ getOrSetCalls' = [getOrSetCalls EXCEPT ![c].pc = "rejected"]
  /\ UNCHANGED <<cache, notGetOrSet>>

GetOrSetInit == getOrSetCalls = [c \in Callers |-> NoCall]

GetOrSetNext ==
  \/ \E c \in Callers, key \in CallKeys : GetOrSetBegin(c, key)
  \/ \E c \in Callers, value \in FallbackValues : GetOrSetResume(c, value)
  \/ \E c \in Callers : GetOrSetReject(c)

----------------------------------------------------------------------------
(* LearningSystem: the patterns and their copy in localStorage *)

\* The ids generatePatternId gives to the source patterns of the runs
PatternIds == 1..(MaxPatterns + 1)

\* Date.now(): the clock of the model after some time since the epoch
Epoch == 1000
DateNow(t) == Epoch + t

\* A pattern is its id (key), confidence and successRate in tenths,
\* usageCount and lastUsed; sourcePattern, targetMapping and metadata are
\* data that learnPattern and JSON carry along.
\* Date.prototype.toJSON and new Date(string): a Date is stored as its ISO
\* string and read back from it
toJSON(p) == [p EXCEPT !.lastUsed = [iso |-> @]]
fromJSON(j) == [j EXCEPT !.lastUsed = @.iso]

\* JSON.stringify(Array.from(this.patterns.entries()))
stringify(ps) == [i \in 1..Len(ps) |-> <<ps[i].key, toJSON(ps[i])>>]

NoItem == [item |-> FALSE, data |-> <<>>]

\* loadPatterns(): the Map built from the stored entries; no item leaves
\* the Map of the constructor, which is empty
loadPatterns(st) ==
  IF ~st.item THEN <<>>
  ELSE [i \in 1..Len(st.data) |->
          [fromJSON(st.data[i][2]) EXCEPT !.key = st.data[i][1]]]

\* savePatterns(): setItem stores the text, or throws (quota exceeded,
\* storage disabled) and leaves the item as it was
savePatterns(ps, st, throws) ==
  IF throws THEN st ELSE [item |-> TRUE, data |-> stringify(ps)]

\* The score of cleanupOldPatterns times 100 * Date.now()
Score(p, t) ==
  ConfidenceWeight * p.confidence * DateNow(t)
  + ConfidenceWeight * p.successRate * DateNow(t)
  + RecencyWeight * 10 * DateNow(p.lastUsed)

\* Array.prototype.sort by ascending score; patterns of equal score keep
\* their order
RECURSIVE InsertByScore(_, _, _)
InsertByScore(sorted, p, t) ==
  IF sorted = <<>> THEN <<p>>
  ELSE IF Score(p, t) < Score(Head(sorted), t) THEN <<p>> \o sorted
  ELSE <<Head(sorted)>> \o InsertByScore(Tail(sorted), p, t)

RECURSIVE SortByScore(_, _)
SortByScore(ps, t) ==
  IF ps = <<>> THEN <<>>
  ELSE InsertByScore(SortByScore(SubSeq(ps, 1, Len(ps) - 1), t), ps[Len(ps)], t)

\* cleanupOldPatterns(): above maxPatterns, the patterns of lowest score go
cleanupOldPatterns(ps, t) ==
  IF Len(ps) <= MaxPatterns THEN ps
  ELSE LET sorted == SortByScore(ps, t)
           toRemove == {sorted[i].key : i \in 1..(Len(ps) - MaxPatterns)}
       IN SelectSeq(ps, LAMBDA p : p.key \notin toRemove)

\* The part of learnPattern before savePatterns: the pattern of the id
\* updated, or a new pattern set
learnInMemory(ps, id, t) ==
  IF MapHas(ps, id)
    THEN LET e == MapGet(ps, id)
         IN MapSet(ps, [e EXCEPT !.usageCount = @ + 1, !.lastUsed = t,
                          !.confidence = Min(FullConfidence, @ + ConfidenceStep)])
    ELSE MapSet(ps, [key |-> id, confidence |-> NewConfidence, usageCount |-> 1,
                     successRate |-> FullConfidence, lastUsed |-> t])

\* learnPattern(): the Map is updated, saved, and only then cleaned up
LearnPattern(id, throws) ==
  LET ps == learnInMemory(patterns, id, now)
  IN /\ learned < MaxLearns
     /\ learned' = learned + 1
     /\ storage' = savePatterns(ps, storage, throws)
     /\ patterns' = cleanupOldPatterns(ps, now)
     /\ learnOp' = [op |-> "learnPattern", saved |-> ~throws]
     /\ UNCHANGED <<now, notLearning>>

\* The page is loaded again: new LearningSystem() calls loadPatterns()
Reload ==
  /\ patterns' = loadPatterns(storage)
  /\ learnOp' = [op |-> "load", saved |-> FALSE]
  /\ UNCHANGED <<now, storage, learned, notLearning>>

\* A millisecond passes
LearnTick ==
  /\ now < LearnTicks
  /\ now' = now + 1
  /\ UNCHANGED <<lsVars, notLearning>>

LearnInit ==
  /\ patterns = <<>>
  /\ storage = NoItem
  /\ learnOp = [op |-> "none", saved |-> FALSE]
  /\ learned = 0

LearnNext ==
  \/ \E id \in PatternIds, throws \in BOOLEAN : LearnPattern(id, throws)
  \/ Reload
  \/ LearnTick

----------------------------------------------------------------------------
(* The specifications *)

\* The state of the subsystems a specification leaves alone
RestInit ==
  WizInit /\ PcInit({DefaultThresholds}) /\ GetOrSetInit /\ LearnInit
OffConfigs == {[enableCache |-> FALSE, enableCompression |-> FALSE]}
OneCpf == {CpfDigits(1, 1, 1, 1)}

InitLRU == now = 0 /\ CacheInit("lru") /\ RlInit /\ RestInit /\ CpfInit(OneCpf) /\ CcInit(OffConfigs) /\ MetricsInit(FALSE) /\ MwInit /\ HcInit(DevEnvs)
InitLFU == now = 0 /\ CacheInit("lfu") /\ RlInit /\ RestInit /\ CpfInit(OneCpf) /\ CcInit(OffConfigs) /\ MetricsInit(FALSE) /\ MwInit /\ HcInit(DevEnvs)
InitFIFO == now = 0 /\ CacheInit("fifo") /\ RlInit /\ RestInit /\ CpfInit(OneCpf) /\ CcInit(OffConfigs) /\ MetricsInit(FALSE) /\ MwInit /\ HcInit(DevEnvs)
InitMetrics ==
  /\ now = 0 /\ CacheInit("lru") /\ RlInit /\ RestInit /\ CpfInit(OneCpf) /\ CcInit(OffConfigs) /\ MwInit /\ HcInit(DevEnvs)
  /\ \E public \in BOOLEAN : MetricsInit(public)

NextTTL == CacheNext(1..MaxSize, TtlArgs, MaxTicks)
NextEvict == CacheNext(Keys, {NoTtl}, EvictTicks)
SpecRL == InitLRU /\ [][RlNext]_vars
SpecMetrics == InitMetrics /\ [][MetricsNext]_vars
SpecMiddleware == InitLRU /\ [][MwNext]_vars

InitHealth ==
  /\ now = 0 /\ CacheInit("lru") /\ RlInit /\ RestInit /\ CpfInit(OneCpf) /\ CcInit(OffConfigs) /\ MetricsInit(FALSE) /\ MwInit
  /\ HcInit(HcEnvs)
SpecHealth == InitHealth /\ [][HcNext]_vars
SpecWizard == InitLRU /\ [][WizNext]_vars

InitCc ==
  /\ now = 0 /\ CacheInit("lru") /\ RlInit /\ RestInit /\ CpfInit(OneCpf) /\ MetricsInit(FALSE)
  /\ MwInit /\ HcInit(DevEnvs) /\ CcInit(CcConfigs)
SpecCc == InitCc /\ [][CcNext]_vars

InitCpf ==
  /\ now = 0 /\ CacheInit("lru") /\ RlInit /\ RestInit /\ MetricsInit(FALSE)
  /\ MwInit /\ HcInit(DevEnvs) /\ CcInit(OffConfigs) /\ CpfInit(CpfValues)
SpecCpf == InitCpf /\ [][ValidateCpf]_vars

InitPc ==
  /\ now = 0 /\ CacheInit("lru") /\ RlInit /\ WizInit /\ MetricsInit(FALSE)
  /\ MwInit /\ HcInit(DevEnvs) /\ CcInit(OffConfigs) /\ CpfInit(OneCpf)
  /\ PcInit(AlertConfigs) /\ GetOrSetInit /\ LearnInit
SpecPc == InitPc /\ [][PcNext]_vars

SpecGetOrSet == InitLRU /\ [][GetOrSetNext]_vars
SpecLearning == InitLRU /\ [][LearnNext]_vars

\* The timer of handlePublish fires and the promise of publishData settles
SpecPublish ==
  /\ InitLRU /\ [][WizNext]_vars
  /\ WF_vars(PublishTimer) /\ WF_vars(PublishDataDone)

SpecTTL == InitLRU /\ [][NextTTL]_vars
SpecLRU == InitLRU /\ [][NextEvict]_vars
SpecLFU == InitLFU /\ [][NextEvict]_vars
SpecFIFO == InitFIFO /\ [][NextEvict]_vars

----------------------------------------------------------------------------
(* Properties of MemoryCache *)

\* The ttl a caller of set(key, value, ttl) asked for, in seconds
AskedTtl(ttlArg) == IF ttlArg = NoTtl THEN DefaultTtl ELSE ttlArg

\* C1: a value stored by set(key, value, ttl) is not returned by get(key),
\* nor reported by has(key), once more than ttl seconds (the default ttl
\* when none was given) have passed since that set.
C1_ExpiredNeverReturned ==
  (cacheOp.op \in {"get", "has"} /\ cacheOp.result \notin {NULL, "false"})
    => now - ghost[cacheOp.key].setAt
         <= AskedTtl(ghost[cacheOp.key].ttlArg) * MsPerSec

\* C2: the cache never holds more than config.maxSize entries.
C2_SizeBound == Len(cache) <= MaxSize

\* C4: with strategy 'lru', a set that adds a new key to a cache holding
\* maxSize entries removes exactly one entry, one whose most recent use
\* (its set or its last successful get) is the oldest.
C4_LruEvictsOldestUse ==
  (strategy = "lru" /\ cacheOp.op = "set" /\ cacheOp.full)
    => \E k \in cacheOp.allowed : cacheOp.removed = {k}

\* C5: with strategy 'lfu', a set that adds a new key to a cache holding
\* maxSize entries removes exactly one entry, one with the fewest
\* successful gets since it was stored.
C5_LfuEvictsFewestGets ==
  (strategy = "lfu" /\ cacheOp.op = "set" /\ cacheOp.full)
    => /\ Cardinality(cacheOp.removed) = 1
       /\ cacheOp.removed \subseteq cacheOp.allowed

\* An lfu eviction with a choice to make: not every entry was evictable
C5_Witness ==
  /\ strategy = "lfu" /\ cacheOp.op = "set" /\ cacheOp.full
  /\ Cardinality(cacheOp.removed) = 1
  /\ Cardinality(cacheOp.allowed) < MaxSize
  /\ Len(cache) = MaxSize

\* C6: with strategy 'fifo', a set that adds a new key to a cache holding
\* maxSize entries removes exactly one entry, the one stored first,
\* whatever was read since.
C6_FifoEvictsFirstStored ==
  (strategy = "fifo" /\ cacheOp.op = "set" /\ cacheOp.full)
    => (Cardinality(cacheOp.removed) = 1 /\ cacheOp.allowed \cap cacheOp.removed # {})

----------------------------------------------------------------------------
(* Properties of RateLimiter *)

RECURSIVE SumOver(_, _)
SumOver(f, S) ==
  IF S = {} THEN 0
  ELSE LET x == CHOOSE y \in S : TRUE IN f[x] + SumOver(f, S \ {x})

\* The requests of client id allowed at a time in [t, t + windowMs)
AllowedWithin(id, t) ==
  SumOver(rlLog[id], {s \in Times : t <= s /\ s < t + RlWindowMs})

\* C3 as stated: in every interval of length windowMs at most maxRequests
\* requests of one client are allowed (a sliding window).
C3_SlidingWindow ==
  \A id \in ClientIds, t \in Times : AllowedWithin(id, t) <= RlMaxRequests

\* C3: the limiter counts in fixed windows, each from the request that opens
\* it to its resetTime, so an interval of length windowMs meets at most two
\* windows: at most 2 * maxRequests requests of one client are allowed in it.
C3_FixedWindow ==
  \A id \in ClientIds, t \in Times : AllowedWithin(id, t) <= 2 * RlMaxRequests

\* More than maxRequests requests of one client allowed within one interval
C3_Witness ==
  \E id \in ClientIds, t \in Times : AllowedWithin(id, t) > RlMaxRequests

\* C9: the requests of one IP address share one limit: in the windows open
\* now, at most maxRequests requests of one IP address were allowed.
C9_PerIpLimit ==
  \A ip \in {id[1] : id \in ClientIds} :
    LET open == {id \in DOMAIN rlStore :
                   id[1] = ip /\ ~(rlStore[id].resetTime < now)}
        granted == [id \in open |-> Min(rlStore[id].count, RlMaxRequests)]
    IN SumOver(granted, open) <= RlMaxRequests

\* C15: of the calls of one client in one window, check allows the first
\* maxRequests and refuses every later one; a client whose window holds
\* maxRequests calls or more is allowed again only once the resetTime of
\* that window has passed.
C15_FirstMaxRequestsAllowed ==
  /\ [](rlUsed > 0 =>
         (rlOp.allowed <=> rlWin[rlOp.id].calls <= RlMaxRequests))
  /\ [][\A id \in ClientIds :
          (/\ rlWin[id].calls >= RlMaxRequests
           /\ rlWin'[id] # rlWin[id]
           /\ rlOp'.allowed)
          => rlWin[id].opened + RlWindowMs < now]_vars

\* A client refused for the second time in one window
C15_Witness ==
  /\ rlUsed > 0
  /\ ~rlOp.allowed
  /\ rlWin[rlOp.id].calls > RlMaxRequests + 1

----------------------------------------------------------------------------
(* Properties of /api/metrics *)

\* The step is a request to /api/metrics whose Authorization header, with
\* its first "Bearer " taken out, is not METRICS_TOKEN, public metrics off
Unauthorized ==
  /\ mUsed' # mUsed
  /\ ~publicMetrics
  /\ ReplaceFirst(mResp'.auth, "Bearer ") # METRICS_TOKEN

C13_DeleteClearsMetric ==
  (mResp.method = "DELETE" /\ mResp.metric # "" /\ mResp.handled
     /\ mResp.status = 200)
    => metrics[mResp.metric] = <<>>

\* C16: the handler of the last request ran exactly when the limiter's check
\* allowed the request; a request refused by the check was answered 429 with
\* the headers Retry-After, X-RateLimit-Limit, X-RateLimit-Remaining and
\* X-RateLimit-Reset.
C16_HandlerIffAllowed ==
  mResp.method # "" =>
    /\ mResp.handled <=> mResp.allowed
    /\ ~mResp.allowed =>
         /\ mResp.status = 429
         /\ {"Retry-After", "X-RateLimit-Limit", "X-RateLimit-Remaining",
             "X-RateLimit-Reset"} \subseteq {h[1] : h \in mResp.headers}

\* A request refused by the limiter of its method
C16_Witness ==
  /\ mResp.method # ""
  /\ ~mResp.allowed
  /\ mResp.status = 429

----------------------------------------------------------------------------
(* Properties of the middleware *)

\* The last request had '../' or '..\' in its pathname, or a query
\* parameter value matching the SQL-injection pattern
Attack ==
  \/ Includes(mwResp.path, <<".", ".", "/">>)
  \/ Includes(mwResp.path, <<".", ".", "\\">>)
  \/ \E i \in 1..Len(mwResp.query) : SqlPattern(mwResp.query[i])

\* C8: such a request is answered with 403 and never passed on.
C8_AttacksBlocked == Attack => (mwResp.status = 403 /\ ~mwResp.next)

----------------------------------------------------------------------------
(* Properties of /api/health-check *)

\* C10: an authorized GET or HEAD is answered 200 when the overall health
\* status is healthy or degraded, and 503 when it is unhealthy.
C10_HealthStatusCodes ==
  (hcResp.method \in {"GET", "HEAD"} /\ hcResp.authorized) =>
    /\ hcResp.health \in {"healthy", "degraded"} => hcResp.status = 200
    /\ hcResp.health = "unhealthy" => hcResp.status = 503

C10_Witness ==
  /\ hcResp.method = "HEAD" /\ hcResp.authorized
  /\ hcResp.health = "degraded" /\ hcResp.status = 200

\* The bearer token of a request: what follows 'Bearer ' at the start of its
\* Authorization header, <<>> for any other header
BearerToken(auth) ==
  IF StartsWith(auth, <<"Bearer ">>) THEN Tail(auth) ELSE <<>>

\* Without a configured token the last request was let in exactly outside
\* production
OpenOutsideProduction ==
  hcEnv.token = <<>> => (hcResp.authorized <=> ~hcEnv.production)

\* A request that was not let in got 401 and no health status was computed
RefusedUncomputed ==
  ~hcResp.authorized => (hcResp.status = 401 /\ hcResp.health = "none")

\* C17 as stated: with a configured token, a request is let in only if its
\* bearer token or its 'token' query parameter is the configured token.
C17_BearerOrQueryToken ==
  hcResp.method # "none" =>
    /\ OpenOutsideProduction
    /\ (hcEnv.token # <<>> /\ hcResp.authorized) =>
         (BearerToken(hcResp.auth) = hcEnv.token \/ hcResp.token = hcEnv.token)
    /\ RefusedUncomputed

\* C17: with a configured token, a request is let in only if its
\* Authorization header without its first 'Bearer ' is the configured token,
\* or that is empty and its 'token' query parameter is the configured token;
\* without a configured token it is let in exactly outside production; a
\* request not let in is answered 401 and no health status is computed.
C17_HeaderOrQueryToken ==
  hcResp.method # "none" =>
    /\ OpenOutsideProduction
    /\ (hcEnv.token # <<>> /\ hcResp.authorized) =>
         \/ ReplaceFirst(hcResp.auth, "Bearer ") = hcEnv.token
         \/ /\ ReplaceFirst(hcResp.auth, "Bearer ") = <<>>
            /\ hcResp.token = hcEnv.token
    /\ RefusedUncomputed

\* A request in production without a configured token, refused
C17_Witness ==
  /\ hcResp.method # "none"
  /\ hcEnv.token = <<>> /\ hcEnv.production
  /\ hcResp.status = 401 /\ hcResp.health = "none"
  /\ errorMetrics.totalErrors > DegradedErrorRate

----------------------------------------------------------------------------
(* Properties of the wizard and of OutputPublisher *)

StepIndex(step) == CHOOSE n \in 1..Len(Steps) : Steps[n] = step

\* C11: the current step starts at 'upload' and changes only by moving one
\* position along upload, analyze, transform, publish; it never skips a
\* step, never goes back and stays at 'publish'.
C11_StepsAdvanceByOne ==
  /\ currentStep = "upload"
  /\ [][\/ currentStep' = currentStep
        \/ /\ StepIndex(currentStep) < Len(Steps)
           /\ currentStep' = Steps[StepIndex(currentStep) + 1]]_vars

C11_Witness ==
  /\ currentStep = "publish"
  /\ completions = {"upload", "analyze", "transform", "publish"}

\* C18: every run of handlePublish sets isPublishing back to false in the
\* end, whether publication succeeded or threw, and leaves a publishResult
\* whose success flag tells which of the two happened.
C18_PublishingEnds ==
  /\ isPublishing ~> ~isPublishing
  /\ [](pubRun.pc = "done" =>
          /\ ~isPublishing
          /\ ~publishResult.null
          /\ publishResult.success = (pubRun.outcome = "published"))

C18_Witness ==
  /\ pubRun.pc = "done" /\ pubRun.outcome = "threw"
  /\ ~isPublishing /\ ~publishResult.null /\ ~publishResult.success

\* The finished run was for the database target with a connection string
\* that is empty or that parseConnectionString finds invalid
BadConnection ==
  /\ pubRun.pc = "done" /\ pubRun.type = "database"
  /\ \/ Trim(pubRun.connectionString) = <<>>
     \/ ~parseConnectionString(pubRun.connectionString)

\* C19: onComplete is called only after a successful publication; with the
\* database target and an empty or invalid connection string (publishData
\* then reports failure) it is never called and the publish result has
\* success = false and the error message.
C19_OnCompleteOnlyOnSuccess ==
  /\ "publish" \in completions =>
       (pubRun.outcome = "published" /\ publishResult.success)
  /\ BadConnection =>
       /\ "publish" \notin completions
       /\ ~publishResult.null /\ ~publishResult.success
       /\ publishResult.error # ""

C19_Witness ==
  /\ BadConnection
  /\ Trim(pubRun.connectionString) # <<>>
  /\ ~publishResult.success /\ "publish" \notin completions

----------------------------------------------------------------------------
(* Properties of CacheCompressionMiddleware *)

\* C12: there is no retry: for each request through wrap() the wrapped
\* handler is invoked at most once, whether the request ends in a cache hit,
\* a normal response or an error.
C12_HandlerInvokedAtMostOnce == ccResp.calls <= 1

----------------------------------------------------------------------------
(* Properties of CPF validation *)

\* The digits of the value, as numbers
CpfNumber == [n \in 1..11 |-> parseInt(StripNonDigits(cpfValue)[n])]

\* The check digit for the first count digits of d, with weights count + 1
\* down to 2: 11 - (sum mod 11), or 0 when that is more than 9
CheckDigit(d, count) ==
  LET sum == SumOver([n \in 1..count |-> d[n] * (count + 2 - n)], 1..count)
      r == 11 - (sum % 11)
  IN IF r > 9 THEN 0 ELSE r

\* C14: an 11-digit number is accepted if and only if its digits are not
\* all equal and its 10th and 11th digits are the two check digits computed
\* from the digits before them (weights 10..2 and 11..2).
C14_CpfModulo11 ==
  cpfResult.done =>
    LET d == CpfNumber
        expected == /\ \E n \in 1..11 : d[n] # d[1]
                    /\ d[10] = CheckDigit(d, 9)
                    /\ d[11] = CheckDigit(d, 10)
    IN cpfResult.validator = expected /\ cpfResult.inference = expected

\* An accepted number whose first check digit is 0 because 11 - (sum mod 11)
\* was more than 9
C14_Witness ==
  /\ cpfResult.done /\ cpfResult.validator /\ cpfResult.inference
  /\ CpfNumber[10] = 0
  /\ 11 - (WeightedSum(StripNonDigits(cpfValue), 0, 9, 10) % 11) > 9

----------------------------------------------------------------------------
(* Properties of PerformanceCollector *)

\* C20: getActiveAlerts() never holds two alerts of one metric.
C20_OneActiveAlertPerMetric ==
  LET active == getActiveAlerts(alerts)
  IN \A i, j \in 1..Len(active) :
       active[i].metric = active[j].metric => i = j

\* A metric with a resolved alert and an alert opened after it, still
\* unresolved
C20_Witness ==
  \E i, j \in 1..Len(alerts) :
    /\ alerts[i].metric = alerts[j].metric
    /\ alerts[i].resolved /\ ~alerts[j].resolved
    /\ alerts[i].timestamp < alerts[j].timestamp

\* The unresolved alerts of a metric
Unresolved(as, metric) ==
  {i \in 1..Len(as) : as[i].metric = metric /\ ~as[i].resolved}

\* C21: a check of a metric that has a threshold, with a value above it and
\* no unresolved alert of the metric, leaves an unresolved alert of the
\* metric made at that time with that value; a check with a value at or
\* below the threshold leaves no unresolved alert of the metric.
C21_AlertOpenedAndResolved ==
  [][\A cv \in CurrentValues : CheckAlerts(cv) =>
       \A k \in 1..Len(cv) :
         LET m == cv[k].metric
             v == cv[k].value
         IN alertThresholds[m] # 0 =>
              /\ (v > alertThresholds[m] /\ Unresolved(alerts, m) = {}) =>
                   \E i \in Unresolved(alerts', m) :
                     /\ alerts'[i].timestamp = now
                     /\ alerts'[i].currentValue = v
              /\ v <= alertThresholds[m] => Unresolved(alerts', m) = {}]_vars

\* An alert that a check resolved, its metric without an unresolved alert
C21_Witness ==
  \E i \in 1..Len(alerts) :
    /\ alerts[i].resolved
    /\ alerts[i].currentValue > alerts[i].threshold
    /\ Unresolved(alerts, alerts[i].metric) = {}

\* What the last cleanup took away of the alerts: resolved alerts older than
\* the retention period
OnlyOldResolvedAlerts ==
  \A a \in removed.alerts : a.resolved /\ a.timestamp < removed.cutoff

\* C22 as stated: cleanupOldMetrics takes away only resolved alerts older
\* than the retention period and only samples older than the retention
\* period.
C22_OnlyOlderRemoved ==
  /\ OnlyOldResolvedAlerts
  /\ \A m \in removed.samples : m.timestamp < removed.cutoff

\* C22: cleanupOldMetrics takes away only resolved alerts older than the
\* retention period, and only samples whose age is the retention period or
\* more; an unresolved alert is never taken away.
C22_OnlyAgedRemoved ==
  /\ OnlyOldResolvedAlerts
  /\ \A m \in removed.samples : m.timestamp <= removed.cutoff

\* A cleanup that took away an alert and a sample and left an unresolved
\* alert older than the retention period
C22_Witness ==
  /\ removed.alerts # {}
  /\ removed.samples # {}
  /\ \E i \in 1..Len(alerts) :
       ~alerts[i].resolved /\ alerts[i].timestamp < removed.cutoff

----------------------------------------------------------------------------
(* Properties of MemoryCache.getOrSet *)

\* C23: a call of getOrSet runs the fallback only when its key is absent or
\* expired, and of two calls for the same absent key that overlap only one
\* runs the fallback and, once both have returned, both returned the same
\* value.
C23_FallbackOncePerKey ==
  \A c \in Callers :
    /\ getOrSetCalls[c].ran => getOrSetCalls[c].miss
    /\ \A d \in getOrSetCalls[c].overlaps :
         /\ ~(getOrSetCalls[c].ran /\ getOrSetCalls[d].ran)
         /\ (getOrSetCalls[c].pc = "returned" /\ getOrSetCalls[d].pc = "returned")
              => getOrSetCalls[c].value = getOrSetCalls[d].value

----------------------------------------------------------------------------
(* Properties of LearningSystem *)

\* C24: after a learnPattern whose setItem did not throw, the patterns that
\* loadPatterns() reads from localStorage are the patterns in memory.
C24_PersistedIsMemory ==
  (learnOp.op = "learnPattern" /\ learnOp.saved) =>
    Elements(loadPatterns(storage)) = Elements(patterns)

====
